---- MODULE Spec2Model ----
(***************************************************************************)
(* A model of the Enterprise Demo backend gateway (backend/app/main.py,    *)
(* backend/app/models.py): the in-memory user store, registration, login,  *)
(* the bearer-token guard of the protected endpoints, and the forwarding   *)
(* of product calls to the upstream data service.                          *)
(*                                                                         *)
(* backend/app/auth.py (create_access_token, get_current_user,             *)
(* get_password_hash, verify_password) is imported by main.py but is not   *)
(* among the sources; those four are modelled from the written             *)
(* specification (sections 4.1, 4.2 and 4.4).                              *)
(***************************************************************************)
EXTENDS Integers, Sequences, FiniteSets, TLC

VARIABLES
    users_db,      \* main.py:33  username -> stored user record
    now,           \* the wall clock the token service reads
    json_error_is_request_exception,
                   \* the installed `requests`: TRUE when its JSONDecodeError
                   \* derives from RequestException (requests >= 2.27)
    last,          \* the call handled last: what was sent upstream, the response
    pc,            \* per worker thread: where it stands inside register_user
    frame,         \* per worker thread: the UserCreate it is registering
    resp           \* per worker thread: the response of its last register_user

vars == <<users_db, now, json_error_is_request_exception, last, pc, frame, resp>>

----------------------------------------------------------------------------
(* Bounds of the model *)

MaxTime == 2
NumThreads == 2

(* HTTP status codes used by main.py *)
HTTP_200_OK == 200
HTTP_201_CREATED == 201
HTTP_204_NO_CONTENT == 204
HTTP_400_BAD_REQUEST == 400
HTTP_401_UNAUTHORIZED == 401
HTTP_404_NOT_FOUND == 404
HTTP_422_UNPROCESSABLE_ENTITY == 422
HTTP_500_INTERNAL_SERVER_ERROR == 500
HTTP_503_SERVICE_UNAVAILABLE == 503

(* The fixed lifetime of a token, in clock ticks (specification 4.2) *)
ACCESS_TOKEN_EXPIRE == 2

----------------------------------------------------------------------------
(* Input domains *)

Usernames == {"alice", "bob"}
Emails == {"a@corp.io", "b@corp.io"}
Passwords == {"pw1", "pw2"}
Salts == {0, 1}
Threads == 1..NumThreads
ProductIds == {7, 8}
Categories == {"", "toys"}
MaxPrices == {0, 10}
None == "<none>"

----------------------------------------------------------------------------
(* Credential hasher (specification 4.1) *)

PasswordCode(p) == CASE p = "pw1" -> 1 [] p = "pw2" -> 2 [] OTHER -> 3

(* The one-way digest of a password under a salt. *)
Digest(p, salt) == (PasswordCode(p) * 5 + salt * 3) % 7

get_password_hash(p, salt) == [scheme |-> "bcrypt", salt |-> salt, digest |-> Digest(p, salt)]

verify_password(p, h) == Digest(p, h.salt) = h.digest

----------------------------------------------------------------------------
(* Token service (specification 4.2) *)

NoToken == [sub |-> None, exp |-> 0, sig |-> "absent"]

create_access_token(data, t) == [sub |-> data.sub, exp |-> t + ACCESS_TOKEN_EXPIRE, sig |-> "ok"]

(* verify(token) -> subject | fails: the subject, or None when the token is
   absent, malformed, wrongly signed or expired. *)
verify_token(tok, t) == IF tok.sig = "ok" /\ t < tok.exp THEN tok.sub ELSE None

(* The tokens a client may present: none, forged ones, and well-signed ones of
   every subject and expiry (a token outlives the process that minted it). *)
SomeTokens ==
    {NoToken, [sub |-> "alice", exp |-> MaxTime + ACCESS_TOKEN_EXPIRE, sig |-> "bad"]}
    \cup {[sub |-> u, exp |-> e, sig |-> "ok"] :
            u \in Usernames, e \in {ACCESS_TOKEN_EXPIRE, MaxTime + ACCESS_TOKEN_EXPIRE}}

Tokens ==
    {NoToken}
    \cup {[sub |-> u, exp |-> MaxTime + ACCESS_TOKEN_EXPIRE, sig |-> "bad"] : u \in Usernames}
    \cup {[sub |-> u, exp |-> e, sig |-> "ok"] :
            u \in Usernames, e \in ACCESS_TOKEN_EXPIRE..(MaxTime + ACCESS_TOKEN_EXPIRE)}

----------------------------------------------------------------------------
(* models.py *)

UserResponse(rec) == [kind |-> "user", username |-> rec.username, email |-> rec.email,
                      disabled |-> rec.disabled]

NoUser == [kind |-> "none"]

(* Auth guard (specification 4.4): the user a token resolves to, or NoUser. *)
get_current_user(tok, db, t) ==
    LET sub == verify_token(tok, t)
    IN  IF sub = None \/ sub \notin DOMAIN db THEN NoUser ELSE UserResponse(db[sub])

(* EmailStr of UserBase: what pydantic accepts as an e-mail address. *)
EmailStr(e) == e \in Emails

UserCreate == [username : Usernames, email : Emails \cup {"not-an-email"}, password : Passwords]

(* JSON values are tagged: <<"null">>, <<"num", n>>, <<"str", s>>. *)
Null == <<"null">>
Num(n) == <<"num", n>>
Str(s) == <<"str", s>>

ProductFields == {"name", "description", "price", "stock_quantity", "category"}

(* Field(gt=0) on price, Field(ge=0) on stock_quantity. *)
FieldValid(k, v) ==
    CASE k = "price" -> v[1] = "num" /\ v[2] > 0
      [] k = "stock_quantity" -> v[1] = "num" /\ v[2] >= 0
      [] OTHER -> v[1] = "str"

(* ProductCreate: every field required, none null. *)
ProductCreate_valid(json) ==
    /\ ProductFields \subseteq DOMAIN json
    /\ \A k \in ProductFields : FieldValid(k, json[k])

(* product.dict(): all five fields of the parsed model. *)
ProductCreate_dict(json) == [k \in ProductFields |-> json[k]]

(* ProductUpdate: every field Optional with default None; a key the model does
   not declare is ignored. *)
ProductUpdate_valid(json) ==
    \A k \in DOMAIN json \cap ProductFields : json[k] = Null \/ FieldValid(k, json[k])

(* The fields pydantic records as set: the declared fields present in the body. *)
fields_set(json) == DOMAIN json \cap ProductFields

(* Mutant: product.dict() without exclude_unset, every field, the unset as null. *)
ProductUpdate_dict_all(json) == [k \in ProductFields |-> IF k \in DOMAIN json THEN json[k] ELSE <<"null">>]

(* product.dict(exclude_unset=True) *)
ProductUpdate_dict_exclude_unset(json) == [k \in fields_set(json) |-> json[k]]

----------------------------------------------------------------------------
(* The upstream data service, as seen through `requests` *)

UpstreamBodies == {"product", "other_json", "not_json"}

NoOutcome == [kind |-> "none", status |-> 0, body |-> "none"]

(* What one upstream call can come to: a transport failure (timeout, connection
   refused), or a response; requests follows redirects, so a 3xx it returns is
   one it does not follow (300, 304, or one with no Location). The body of a 4xx/5xx is not
   read by any handler. *)
Outcomes ==
    {[kind |-> "error", status |-> 0, body |-> "none"]}
    \cup {[kind |-> "response", status |-> s, body |-> b] : s \in {200, 300}, b \in UpstreamBodies}
    \cup {[kind |-> "response", status |-> s, body |-> "other_json"] : s \in {404, 500}}

SomeOutcomes ==
    {[kind |-> "error", status |-> 0, body |-> "none"],
     [kind |-> "response", status |-> 200, body |-> "product"]}

(* response.raise_for_status(): TRUE when it raises HTTPError. *)
raise_for_status(out) == out.status >= 400 /\ out.status < 600

(* str(e) of the RequestException caught. *)
ErrorText(out) ==
    IF out.kind = "error" THEN "connection failed"
    ELSE IF raise_for_status(out) THEN (IF out.status < 500 THEN "Client Error" ELSE "Server Error")
    ELSE "Expecting value"

NoBody == [kind |-> "none"]

Response(st, body) == [status |-> st, body |-> body]

(* except requests.RequestException as e: raise HTTPException(503, ...) *)
ServiceUnavailable(out) ==
    Response(HTTP_503_SERVICE_UNAVAILABLE,
             [kind |-> "detail", detail |-> "Data service unavailable", error |-> ErrorText(out)])

NotFound == Response(HTTP_404_NOT_FOUND, [kind |-> "detail", detail |-> "Product not found", error |-> ""])

InternalServerError ==
    Response(HTTP_500_INTERNAL_SERVER_ERROR, [kind |-> "detail", detail |-> "Internal Server Error", error |-> ""])

Unauthorized(detail) ==
    Response(HTTP_401_UNAUTHORIZED, [kind |-> "detail", detail |-> detail, error |-> ""])

Unprocessable ==
    Response(HTTP_422_UNPROCESSABLE_ENTITY, [kind |-> "detail", detail |-> "validation error", error |-> ""])

(* `return response.json()` under response_model: a body that is not JSON raises
   JSONDecodeError, caught as RequestException only by a requests that derives it
   so; JSON that does not fit the response model fails response validation. *)
return_json(out, success, compat) ==
    CASE out.body = "not_json" -> IF compat THEN ServiceUnavailable(out) ELSE InternalServerError
      [] out.body = "other_json" -> InternalServerError
      [] OTHER -> Response(success, [kind |-> "upstream", body |-> out.body])

----------------------------------------------------------------------------
(* The product handlers' own logic, as functions of their inputs *)

(* Optional[...] parameters: <<>> is None, <<v>> a supplied value. *)
Absent == <<>>
Some(v) == <<v>>

(* Python truthiness of an Optional[str] / Optional[float]. *)
Truthy(opt, zero) == opt # Absent /\ opt[1] # zero

(* f"{max_price}" of a float, f"{product_id}" of an int *)
FloatText(x) == CASE x = 0 -> "0.0" [] x = 10 -> "10.0" [] OTHER -> "?.?"
IntText(n) == CASE n = 7 -> "7" [] n = 8 -> "8" [] OTHER -> "?"

Request(method, path, json) == [method |-> method, path |-> path, json |-> json]

NoJson == [kind |-> "none"]
Json(d) == [kind |-> "json", dict |-> d]

(* main.py:54-59: the upstream path get_products asks for. *)
get_products_path(category, max_price) ==
    IF Truthy(category, "") THEN <<"products", "category", category[1]>>
    ELSE IF Truthy(max_price, 0) THEN <<"products", "price", FloatText(max_price[1])>>
    ELSE <<"products">>

(* main.py:61-65 *)
get_products_response(out, compat) ==
    IF out.kind = "error" \/ raise_for_status(out) THEN ServiceUnavailable(out)
    ELSE return_json(out, HTTP_200_OK, compat)

(* main.py:69-78 *)
get_product_response(out, compat) ==
    IF out.kind = "error" THEN ServiceUnavailable(out)
    ELSE IF out.status = 404 THEN NotFound
    ELSE IF raise_for_status(out) THEN ServiceUnavailable(out)
    ELSE return_json(out, HTTP_200_OK, compat)

(* main.py:82-91 *)
create_product_response(out, compat) ==
    IF out.kind = "error" \/ raise_for_status(out) THEN ServiceUnavailable(out)
    ELSE return_json(out, HTTP_201_CREATED, compat)

(* main.py:95-107 *)
update_product_response(out, compat) ==
    IF out.kind = "error" THEN ServiceUnavailable(out)
    ELSE IF out.status = 404 THEN NotFound
    ELSE IF raise_for_status(out) THEN ServiceUnavailable(out)
    ELSE return_json(out, HTTP_200_OK, compat)

(* main.py:111-120 *)
delete_product_response(out) ==
    IF out.kind = "error" THEN ServiceUnavailable(out)
    ELSE IF out.status = 404 THEN NotFound
    ELSE IF raise_for_status(out) THEN ServiceUnavailable(out)
    ELSE Response(HTTP_204_NO_CONTENT, NoBody)

(* Mutant: the transport failure is let through as a 503, and any status that
   raise_for_status lets pass counts as healthy. *)
health_check_response_unguarded(out) ==
    IF out.kind = "error" THEN ServiceUnavailable(out)
    ELSE IF ~raise_for_status(out)
    THEN Response(HTTP_200_OK, [kind |-> "health", status |-> "healthy", data_service |-> "connected", error |-> ""])
    ELSE Response(HTTP_200_OK, [kind |-> "health", status |-> "degraded", data_service |-> "unavailable", error |-> ""])

(* main.py:41-48 *)
health_check_response(out) ==
    IF out.kind = "error"
    THEN Response(HTTP_200_OK, [kind |-> "health", status |-> "degraded", data_service |-> "", error |-> ErrorText(out)])
    ELSE IF out.status = 200
    THEN Response(HTTP_200_OK, [kind |-> "health", status |-> "healthy", data_service |-> "connected", error |-> ""])
    ELSE Response(HTTP_200_OK, [kind |-> "health", status |-> "degraded", data_service |-> "unavailable", error |-> ""])

----------------------------------------------------------------------------
(* The state after the module is imported *)

NoCall == [op |-> "none", req |-> [kind |-> "none"], up |-> NoOutcome,
           status |-> 0, body |-> NoBody, sent |-> <<>>]

NoFrame == [username |-> None, email |-> None, password |-> None]
NoResp == [status |-> 0, user |-> NoFrame]

Init ==
    /\ users_db = [u \in {} |-> NoUser]
    /\ now = 0
    /\ json_error_is_request_exception \in BOOLEAN
    /\ last = NoCall
    /\ pc = [t \in Threads |-> "idle"]
    /\ frame = [t \in Threads |-> NoFrame]
    /\ resp = [t \in Threads |-> NoResp]

(* The handled call, as recorded in `last`. *)
Handled(op, req, up, r, sent) ==
    last' = [op |-> op, req |-> req, up |-> up, status |-> r.status, body |-> r.body, sent |-> sent]

----------------------------------------------------------------------------
(* Handlers: one action per endpoint *)

read_root ==
    /\ Handled("read_root", [kind |-> "none"], NoOutcome,
               Response(HTTP_200_OK, [kind |-> "message"]), <<>>)
    /\ UNCHANGED <<users_db, now, json_error_is_request_exception, pc, frame, resp>>

health_check(out) ==
    /\ Handled("health_check", [kind |-> "none"], out, health_check_response(out),
               <<Request("GET", <<"products">>, NoJson)>>)
    /\ UNCHANGED <<users_db, now, json_error_is_request_exception, pc, frame, resp>>

get_products(category, max_price, out) ==
    /\ Handled("get_products", [category |-> category, max_price |-> max_price], out,
               get_products_response(out, json_error_is_request_exception),
               <<Request("GET", get_products_path(category, max_price), NoJson)>>)
    /\ UNCHANGED <<users_db, now, json_error_is_request_exception, pc, frame, resp>>

(* Mutant: a failed upstream call is tried once more. *)
get_product_retry(product_id, out) ==
    LET request == Request("GET", <<"products", IntText(product_id)>>, NoJson) IN
    /\ Handled("get_product", [product_id |-> product_id], out,
               get_product_response(out, json_error_is_request_exception),
               IF out.kind = "error" THEN <<request, request>> ELSE <<request>>)
    /\ UNCHANGED <<users_db, now, json_error_is_request_exception, pc, frame, resp>>

get_product(product_id, out) ==
    /\ Handled("get_product", [product_id |-> product_id], out,
               get_product_response(out, json_error_is_request_exception),
               <<Request("GET", <<"products", IntText(product_id)>>, NoJson)>>)
    /\ UNCHANGED <<users_db, now, json_error_is_request_exception, pc, frame, resp>>

(* The record register_user stores (main.py:132-137). *)
UserRecord(user, salt) ==
    [username |-> user.username, email |-> user.email,
     hashed_password |-> get_password_hash(user.password, salt), disabled |-> FALSE]

(* users_db[k] = v *)
Put(db, k, v) == [x \in DOMAIN db \cup {k} |-> IF x = k THEN v ELSE db[x]]

(* Depends(get_current_user) runs first; then the body is validated; only then
   the handler body, whose one upstream call comes to `out`. *)
create_product(product, token, out) ==
    LET req == [product |-> product, token |-> token] IN
    /\ IF get_current_user(token, users_db, now) = NoUser
       THEN Handled("create_product", req, NoOutcome, Unauthorized("Could not validate credentials"), <<>>)
       ELSE IF ~ProductCreate_valid(product)
       THEN Handled("create_product", req, NoOutcome, Unprocessable, <<>>)
       ELSE Handled("create_product", req, out,
                    create_product_response(out, json_error_is_request_exception),
                    <<Request("POST", <<"products">>, Json(ProductCreate_dict(product)))>>)
    /\ UNCHANGED <<users_db, now, json_error_is_request_exception, pc, frame, resp>>

update_product(product_id, product, token, out) ==
    LET req == [product_id |-> product_id, product |-> product, token |-> token] IN
    /\ IF get_current_user(token, users_db, now) = NoUser
       THEN Handled("update_product", req, NoOutcome, Unauthorized("Could not validate credentials"), <<>>)
       ELSE IF ~ProductUpdate_valid(product)
       THEN Handled("update_product", req, NoOutcome, Unprocessable, <<>>)
       ELSE Handled("update_product", req, out,
                    update_product_response(out, json_error_is_request_exception),
                    <<Request("PUT", <<"products", IntText(product_id)>>,
                              Json(ProductUpdate_dict_exclude_unset(product)))>>)
    /\ UNCHANGED <<users_db, now, json_error_is_request_exception, pc, frame, resp>>

(* Mutant: delete_product without Depends(get_current_user). *)
delete_product_unguarded(product_id, token, out) ==
    /\ Handled("delete_product", [product_id |-> product_id, token |-> token], out,
               delete_product_response(out),
               <<Request("DELETE", <<"products", IntText(product_id)>>, NoJson)>>)
    /\ UNCHANGED <<users_db, now, json_error_is_request_exception, pc, frame, resp>>

delete_product(product_id, token, out) ==
    LET req == [product_id |-> product_id, token |-> token] IN
    /\ IF get_current_user(token, users_db, now) = NoUser
       THEN Handled("delete_product", req, NoOutcome, Unauthorized("Could not validate credentials"), <<>>)
       ELSE Handled("delete_product", req, out, delete_product_response(out),
                    <<Request("DELETE", <<"products", IntText(product_id)>>, NoJson)>>)
    /\ UNCHANGED <<users_db, now, json_error_is_request_exception, pc, frame, resp>>

(* Mutant: register_user without the membership test. *)
register_user_overwrite(user, salt) ==
    /\ IF ~EmailStr(user.email)
       THEN /\ Handled("register_user", user, NoOutcome, Unprocessable, <<>>)
            /\ UNCHANGED users_db
       ELSE /\ users_db' = Put(users_db, user.username, UserRecord(user, salt))
            /\ Handled("register_user", user, NoOutcome,
                       Response(HTTP_201_CREATED,
                                [kind |-> "user", username |-> user.username,
                                 email |-> user.email, disabled |-> FALSE]),
                       <<>>)
    /\ UNCHANGED <<now, json_error_is_request_exception, pc, frame, resp>>

(* register_user run from its first line to its return with no other request in
   between; `salt` is the salt the hasher draws. *)
register_user(user, salt) ==
    /\ IF ~EmailStr(user.email)
       THEN /\ Handled("register_user", user, NoOutcome, Unprocessable, <<>>)
            /\ UNCHANGED users_db
       ELSE IF user.username \in DOMAIN users_db
       THEN /\ Handled("register_user", user, NoOutcome,
                       Response(HTTP_400_BAD_REQUEST,
                                [kind |-> "detail", detail |-> "Username already registered", error |-> ""]),
                       <<>>)
            /\ UNCHANGED users_db
       ELSE /\ users_db' = Put(users_db, user.username, UserRecord(user, salt))
            /\ Handled("register_user", user, NoOutcome,
                       Response(HTTP_201_CREATED,
                                [kind |-> "user", username |-> user.username,
                                 email |-> user.email, disabled |-> FALSE]),
                       <<>>)
    /\ UNCHANGED <<now, json_error_is_request_exception, pc, frame, resp>>

(* Mutant: login that looks the user up and never verifies the password. *)
login_without_verify(username, password) ==
    LET req == [username |-> username, password |-> password] IN
    /\ IF username \notin DOMAIN users_db
       THEN Handled("login_for_access_token", req, NoOutcome,
                    Unauthorized("Incorrect username or password"), <<>>)
       ELSE Handled("login_for_access_token", req, NoOutcome,
                    Response(HTTP_200_OK,
                             [kind |-> "token",
                              access_token |-> create_access_token([sub |-> username], now),
                              token_type |-> "bearer"]),
                    <<>>)
    /\ UNCHANGED <<users_db, now, json_error_is_request_exception, pc, frame, resp>>

(* Mutant: login that puts the user's e-mail, not the username, in "sub". *)
login_with_email_subject(username, password) ==
    LET req == [username |-> username, password |-> password] IN
    /\ IF username \notin DOMAIN users_db
          \/ ~verify_password(password, users_db[username].hashed_password)
       THEN Handled("login_for_access_token", req, NoOutcome,
                    Unauthorized("Incorrect username or password"), <<>>)
       ELSE Handled("login_for_access_token", req, NoOutcome,
                    Response(HTTP_200_OK,
                             [kind |-> "token",
                              access_token |-> create_access_token([sub |-> users_db[username].email], now),
                              token_type |-> "bearer"]),
                    <<>>)
    /\ UNCHANGED <<users_db, now, json_error_is_request_exception, pc, frame, resp>>

login_for_access_token(username, password) ==
    LET req == [username |-> username, password |-> password] IN
    /\ IF username \notin DOMAIN users_db
          \/ ~verify_password(password, users_db[username].hashed_password)
       THEN Handled("login_for_access_token", req, NoOutcome,
                    Unauthorized("Incorrect username or password"), <<>>)
       ELSE Handled("login_for_access_token", req, NoOutcome,
                    Response(HTTP_200_OK,
                             [kind |-> "token",
                              access_token |-> create_access_token([sub |-> username], now),
                              token_type |-> "bearer"]),
                    <<>>)
    /\ UNCHANGED <<users_db, now, json_error_is_request_exception, pc, frame, resp>>

read_users_me(token) ==
    LET current_user == get_current_user(token, users_db, now) IN
    /\ IF current_user = NoUser
       THEN Handled("read_users_me", [token |-> token], NoOutcome,
                    Unauthorized("Could not validate credentials"), <<>>)
       ELSE Handled("read_users_me", [token |-> token], NoOutcome,
                    Response(HTTP_200_OK, current_user), <<>>)
    /\ UNCHANGED <<users_db, now, json_error_is_request_exception, pc, frame, resp>>

(* The clock advances. *)
Tick ==
    /\ now < MaxTime
    /\ now' = now + 1
    /\ UNCHANGED <<users_db, json_error_is_request_exception, last, pc, frame, resp>>

----------------------------------------------------------------------------
(* register_user as the worker threads run it: FastAPI runs a `def` endpoint in
   a thread pool, so another request may run between the membership test
   (main.py:125) and the insert (main.py:132); the hash is computed in between. *)

RegisterCheck(t, user) ==
    /\ pc[t] = "idle"
    /\ IF ~EmailStr(user.email)
       THEN /\ resp' = [resp EXCEPT ![t] = [status |-> HTTP_422_UNPROCESSABLE_ENTITY, user |-> user]]
            /\ UNCHANGED <<pc, frame>>
       ELSE IF user.username \in DOMAIN users_db
       THEN /\ resp' = [resp EXCEPT ![t] = [status |-> HTTP_400_BAD_REQUEST, user |-> user]]
            /\ UNCHANGED <<pc, frame>>
       ELSE /\ pc' = [pc EXCEPT ![t] = "hash"]
            /\ frame' = [frame EXCEPT ![t] = user]
            /\ resp' = [resp EXCEPT ![t] = NoResp]
    /\ UNCHANGED <<users_db, now, json_error_is_request_exception, last>>

RegisterStore(t, salt) ==
    /\ pc[t] = "hash"
    /\ users_db' = Put(users_db, frame[t].username, UserRecord(frame[t], salt))
    /\ resp' = [resp EXCEPT ![t] = [status |-> HTTP_201_CREATED, user |-> frame[t]]]
    /\ pc' = [pc EXCEPT ![t] = "idle"]
    /\ frame' = [frame EXCEPT ![t] = NoFrame]
    /\ UNCHANGED <<now, json_error_is_request_exception, last>>

----------------------------------------------------------------------------
(* Request bodies *)

GoodProduct ==
    [name |-> Str("robot"), description |-> Str("a toy"), price |-> Num(5),
     stock_quantity |-> Num(0), category |-> Str("toys")]

CreateBodies == {GoodProduct, [GoodProduct EXCEPT !.price = Num(0)]}

(* A JSON object from one choice per key; Absent leaves the key out. *)
JsonObject(n, d, p, s, c, i) ==
    LET pick == [name |-> n, description |-> d, price |-> p, stock_quantity |-> s,
                 category |-> c, id |-> i]
    IN  [k \in {x \in DOMAIN pick : pick[x] # Absent} |-> pick[k]]

(* A few ProductUpdate bodies, for the runs that are not about the body: price
   alone, and one that fails validation. *)
SomeUpdateBodies ==
    {JsonObject(Absent, Absent, Num(5), Absent, Absent, Absent),
     JsonObject(Null, Absent, Num(0), Absent, Absent, Absent)}

(* Every ProductUpdate body with each field left out, null or given; and some
   with a key the model does not declare, or a value that fails validation. *)
UpdateBodies ==
    {JsonObject(n, d, p, s, c, Absent) :
        n \in {Absent, Null, Str("robot")},
        d \in {Absent, Null, Str("a toy")},
        p \in {Absent, Null, Num(5)},
        s \in {Absent, Null, Num(3)},
        c \in {Absent, Null, Str("toys")}}
    \cup {JsonObject(Absent, Absent, p, Absent, Absent, Num(7)) : p \in {Absent, Null, Num(5)}}
    \cup SomeUpdateBodies

SomeUser == [username : Usernames, email : {"a@corp.io"}, password : {"pw1"}]

OptCategories == {Absent} \cup {Some(c) : c \in Categories}
OptMaxPrices == {Absent} \cup {Some(x) : x \in MaxPrices}

----------------------------------------------------------------------------
(* The gateway, every endpoint, requests handled one after another *)

Next ==
    \/ read_root
    \/ \E out \in Outcomes : health_check(out)
    \/ \E c \in OptCategories, m \in OptMaxPrices, out \in Outcomes : get_products(c, m, out)
    \/ \E id \in ProductIds, out \in Outcomes : get_product(id, out)
    \/ \E b \in CreateBodies, tok \in SomeTokens, out \in Outcomes : create_product(b, tok, out)
    \/ \E id \in ProductIds, b \in SomeUpdateBodies, tok \in SomeTokens, out \in Outcomes :
          update_product(id, b, tok, out)
    \/ \E id \in ProductIds, tok \in SomeTokens, out \in Outcomes : delete_product(id, tok, out)
    \/ \E user \in SomeUser : register_user(user, 0)
    \/ \E u \in Usernames, p \in Passwords : login_for_access_token(u, p)
    \/ \E tok \in SomeTokens : read_users_me(tok)
    \/ Tick

Spec == Init /\ [][Next]_vars

(* The user endpoints alone, over every credential *)
NextUsers ==
    \/ \E user \in UserCreate, salt \in Salts : register_user(user, salt)
    \/ \E u \in Usernames, p \in Passwords : login_for_access_token(u, p)
    \/ \E tok \in Tokens : read_users_me(tok)
    \/ Tick

SpecUsers == Init /\ [][NextUsers]_vars

(* update_product over every body *)
NextUpdate ==
    \/ register_user([username |-> "alice", email |-> "a@corp.io", password |-> "pw1"], 0)
    \/ \E b \in UpdateBodies, out \in SomeOutcomes :
          update_product(7, b, [sub |-> "alice", exp |-> MaxTime + ACCESS_TOKEN_EXPIRE, sig |-> "ok"], out)

SpecUpdate == Init /\ [][NextUpdate]_vars

(* Concurrent registrations *)
NextConc ==
    \/ \E t \in Threads, user \in UserCreate : RegisterCheck(t, user)
    \/ \E t \in Threads, salt \in Salts : RegisterStore(t, salt)

SpecConc == Init /\ [][NextConc]_vars

----------------------------------------------------------------------------
(* Properties *)

(* What a well-signed, unexpired token of a registered user is, said without
   the guard's own code. *)
TokenAccepted(tok) == tok.sig = "ok" /\ now < tok.exp /\ tok.sub \in DOMAIN users_db

GatewayOps == {"health_check", "get_products", "get_product",
               "create_product", "update_product", "delete_product"}
ProtectedProductOps == {"create_product", "update_product", "delete_product"}

(* A step in which a call of endpoint `op` is handled: only Tick moves the clock,
   and every handler leaves its call in `last`. The inputs of the call are then
   last'.req, and the state it ran in is the unprimed one. (A call that leaves
   every variable as it was is a stuttering step; the same call is also taken
   from the states that differ only in `last`, where it is not.) *)
Handles(op) == last'.op = op /\ now' = now

(* C1: run one after another, the first registration of a username answers 201
   and stores its record (the e-mail, the hash of its password, disabled FALSE);
   every later registration of that username answers 400 and leaves users_db as
   it is; a stored record is never changed by any later call. *)
C1_RegisterOnce ==
    [][ /\ \A u \in DOMAIN users_db : u \in DOMAIN users_db' /\ users_db'[u] = users_db[u]
        /\ (Handles("register_user") /\ EmailStr(last'.req.email)) =>
              LET user == last'.req IN
              IF user.username \in DOMAIN users_db
              THEN last'.status = HTTP_400_BAD_REQUEST /\ users_db' = users_db
              ELSE /\ last'.status = HTTP_201_CREATED
                   /\ DOMAIN users_db' = DOMAIN users_db \cup {user.username}
                   /\ \E salt \in Salts :
                         users_db'[user.username] =
                            [username |-> user.username, email |-> user.email,
                             hashed_password |-> get_password_hash(user.password, salt),
                             disabled |-> FALSE]
      ]_vars

(* A second registration of a stored username, with another e-mail, was refused
   and the first record is still there. *)
C1_Witness ==
    /\ last.op = "register_user"
    /\ last.status = HTTP_400_BAD_REQUEST
    /\ last.req.username \in DOMAIN users_db
    /\ users_db[last.req.username].email # last.req.email

(* C2: of the concurrent registrations of one username at most one answers 201,
   and the record stored under that username is the one of the request that
   answered 201. *)
C2_ConcurrentUniqueness ==
    /\ \A t1, t2 \in Threads :
          (t1 # t2 /\ resp[t1].status = HTTP_201_CREATED /\ resp[t2].status = HTTP_201_CREATED)
             => resp[t1].user.username # resp[t2].user.username
    /\ \A t \in Threads :
          resp[t].status = HTTP_201_CREATED =>
             /\ resp[t].user.username \in DOMAIN users_db
             /\ users_db[resp[t].user.username].email = resp[t].user.email
             /\ verify_password(resp[t].user.password,
                                users_db[resp[t].user.username].hashed_password)

(* C3: a protected endpoint called with a token that is absent, forged, expired
   or of an unregistered subject answers 401 and sends nothing upstream; called
   with an accepted token it does not answer 401, a well-formed call reaches the
   handler, and read_users_me returns the token's user. The product reads take
   no token and always reach their handler. *)
C3_AuthGuard ==
    [][ /\ (now' = now /\ last'.op \in ProtectedProductOps \cup {"read_users_me"}) =>
              LET tok == last'.req.token IN
              IF TokenAccepted(tok)
              THEN /\ last'.status # HTTP_401_UNAUTHORIZED
                   /\ Handles("delete_product") => Len(last'.sent) = 1
                   /\ (Handles("update_product") /\ ProductUpdate_valid(last'.req.product))
                         => Len(last'.sent) = 1
                   /\ (Handles("create_product") /\ ProductCreate_valid(last'.req.product))
                         => Len(last'.sent) = 1
                   /\ Handles("read_users_me") =>
                         /\ last'.status = HTTP_200_OK
                         /\ last'.body.kind = "user"
                         /\ last'.body.username = tok.sub
                         /\ last'.body.email = users_db[tok.sub].email
              ELSE last'.status = HTTP_401_UNAUTHORIZED /\ last'.sent = <<>>
        /\ (now' = now /\ last'.op \in {"get_products", "get_product"}) =>
              last'.status # HTTP_401_UNAUTHORIZED /\ Len(last'.sent) = 1
      ]_vars

(* delete_product refused the expired token of a registered user, and sent
   nothing upstream. *)
C3_Witness ==
    /\ last.op = "delete_product"
    /\ last.status = HTTP_401_UNAUTHORIZED
    /\ last.sent = <<>>
    /\ last.req.token.sig = "ok"
    /\ last.req.token.sub \in DOMAIN users_db
    /\ last.req.token.exp <= now

(* C4: login answers 200 with a bearer token of subject `username` exactly when
   the username is stored and the stored hash is a hash of `password`; otherwise
   it answers 401 with no token. It never changes users_db. *)
C4_Login ==
    [][ Handles("login_for_access_token") =>
           LET u == last'.req.username
               p == last'.req.password
           IN  /\ users_db' = users_db
               /\ IF u \in DOMAIN users_db
                     /\ \E salt \in Salts : users_db[u].hashed_password = get_password_hash(p, salt)
                  THEN /\ last'.status = HTTP_200_OK
                       /\ last'.body.kind = "token"
                       /\ last'.body.token_type = "bearer"
                       /\ last'.body.access_token.sub = u
                       /\ verify_token(last'.body.access_token, now) = u
                  ELSE /\ last'.status = HTTP_401_UNAUTHORIZED
                       /\ last'.body.kind # "token"
      ]_vars

(* A registered user's login with the wrong password was refused. *)
C4_Witness ==
    /\ last.op = "login_for_access_token"
    /\ last.status = HTTP_401_UNAUTHORIZED
    /\ last.req.username \in DOMAIN users_db
    /\ ~verify_password(last.req.password, users_db[last.req.username].hashed_password)

(* C5: the token login issues for u at time `now` verifies to u at every time
   before now + ACCESS_TOKEN_EXPIRE and fails at every time from then on; and a
   token that fails now fails after every step (nothing the server keeps brings
   it back). *)
C5_TokenLifetime ==
    [][ /\ (Handles("login_for_access_token") /\ last'.status = HTTP_200_OK) =>
              \A t \in now..(MaxTime + ACCESS_TOKEN_EXPIRE + 1) :
                 verify_token(last'.body.access_token, t) =
                    IF t < now + ACCESS_TOKEN_EXPIRE THEN last'.req.username ELSE None
        /\ \A tok \in Tokens :
              verify_token(tok, now) = None => verify_token(tok, now') = None
      ]_vars

(* The token issued by the last login has since expired. *)
C5_Witness ==
    /\ last.op = "login_for_access_token"
    /\ last.status = HTTP_200_OK
    /\ verify_token(last.body.access_token, now) = None
    /\ last.body.access_token.sub \in DOMAIN users_db

(* C6: for get_product, update_product and delete_product an upstream 200 (with
   a product body) gives success, an upstream 404 gives 404, and a transport
   failure or any other non-2xx status gives 503; for get_products and
   create_product every upstream failure (a transport failure, a 4xx or a 5xx),
   404 included, gives 503. *)
C6_OutcomeMapping ==
    (last.op \in {"get_products", "get_product"} \cup ProtectedProductOps /\ last.up # NoOutcome) =>
        LET non2xx == last.up.kind = "response" /\ (last.up.status < 200 \/ last.up.status >= 300)
            success == IF last.op = "delete_product"
                       THEN last.status = HTTP_204_NO_CONTENT /\ last.body = NoBody
                       ELSE /\ last.status = (IF last.op = "create_product" THEN HTTP_201_CREATED ELSE HTTP_200_OK)
                            /\ last.body = [kind |-> "upstream", body |-> last.up.body]
        IN  /\ (last.up.kind = "response" /\ last.up.status = 200 /\ last.up.body = "product") => success
            /\ (last.up.kind = "response" /\ last.up.status = 404) =>
                  last.status = (IF last.op \in {"get_products", "create_product"}
                                 THEN HTTP_503_SERVICE_UNAVAILABLE ELSE HTTP_404_NOT_FOUND)
            /\ (last.up.kind = "error"
                  \/ (last.up.status # 404
                        /\ IF last.op \in {"get_products", "create_product"}
                           THEN raise_for_status(last.up) ELSE non2xx)) =>
                  /\ last.status = HTTP_503_SERVICE_UNAVAILABLE
                  /\ last.body.error = ErrorText(last.up)

(* C7: get_products asks the category path whenever a (non-empty) category is
   supplied, the price path whenever max_price is supplied and category is not,
   whatever the value of max_price, and the plain path otherwise. *)
C7_FilterPath ==
    last.op = "get_products" =>
        LET category == last.req.category
            max_price == last.req.max_price
            path == last.sent[1].path
        IN  /\ Len(last.sent) = 1
            /\ IF category # Absent /\ category # Some("")
               THEN path = <<"products", "category", category[1]>>
               ELSE IF max_price # Absent
               THEN path = <<"products", "price", FloatText(max_price[1])>>
               ELSE path = <<"products">>

(* C8: health_check always answers 200; it reports "healthy" exactly when the
   upstream list call answered 200, and "degraded" otherwise, with the
   exception's text when the call raised. *)
C8_HealthNeverFails ==
    last.op = "health_check" =>
        /\ last.status = HTTP_200_OK
        /\ last.body.kind = "health"
        /\ last.body.status \in {"healthy", "degraded"}
        /\ last.body.status = "healthy" <=> (last.up.kind = "response" /\ last.up.status = 200)
        /\ last.up.kind = "error" => last.body.error = ErrorText(last.up)

(* The upstream call raised and health_check answered 200, degraded. *)
C8_Witness ==
    /\ last.op = "health_check"
    /\ last.up.kind = "error"
    /\ last.status = HTTP_200_OK
    /\ last.body.status = "degraded"

(* C9: the body update_product forwards has exactly the declared fields the
   caller's body holds, each with the caller's value; a field the caller left
   out is not in it. *)
C9_PartialUpdate ==
    (last.op = "update_product" /\ last.sent # <<>>) =>
        LET given == last.req.product
            forwarded == last.sent[1].json.dict
        IN  /\ last.sent[1].json.kind = "json"
            /\ DOMAIN forwarded = DOMAIN given \cap ProductFields
            /\ \A k \in DOMAIN forwarded : forwarded[k] = given[k]
            /\ \A k \in ProductFields \ DOMAIN given : k \notin DOMAIN forwarded

(* A body holding price alone was forwarded with the single key price. *)
C9_Witness ==
    /\ last.op = "update_product"
    /\ Len(last.sent) = 1
    /\ DOMAIN last.req.product = {"price"}
    /\ DOMAIN last.sent[1].json.dict = {"price"}
    /\ last.sent[1].json.dict["price"] = Num(5)

(* C10: a product or health call that reaches its handler sends exactly one
   upstream request, whatever that request comes to; a call refused before its
   handler, and every user endpoint, sends none. *)
C10_SingleUpstreamCall ==
    LET reached == last.status \notin {HTTP_401_UNAUTHORIZED, HTTP_422_UNPROCESSABLE_ENTITY}
    IN  IF last.op \in GatewayOps /\ reached
        THEN Len(last.sent) = 1 /\ last.up \in Outcomes
        ELSE last.sent = <<>> /\ last.up = NoOutcome

(* get_product met a transport failure, sent its one request and answered 503. *)
C10_Witness ==
    /\ last.op = "get_product"
    /\ last.up.kind = "error"
    /\ Len(last.sent) = 1
    /\ last.status = HTTP_503_SERVICE_UNAVAILABLE

====
